---- MODULE Spec2Model ----
(***************************************************************************)
(* Model of src/utilisateur.py: the ULFlix user directory                  *)
(* (AnnuaireUtilisateur) with its persisted text file, the interactive     *)
(* registration (inscrire) and the interactive authentication              *)
(* (authentifier).  A text is a sequence of one-character strings, the     *)
(* file is the sequence of its characters, and each prompt (one call of    *)
(* input()) is one step of the state machine.                              *)
(***************************************************************************)
EXTENDS Integers, Sequences, FiniteSets, TLC

\* ------------------------------------------------------------------ bounds
\* Registrations are started only while the file holds fewer lines.
MaxLignes == 2

\* ------------------------------------------------------------- text values
\* None: the value of a local that holds no accepted input yet.
None == <<"None">>
\* Marker of an integer local that holds no accepted input yet.
NoneInt == -1

Min(S) == CHOOSE x \in S : \A y \in S : x <= y

\* The first position from i on, going up, at which s holds a character
\* of cs (or, with dans = FALSE, a character outside cs); 0 when none.
RECURSIVE Suivant(_, _, _, _)
Suivant(s, cs, dans, i) ==
    IF i > Len(s) THEN 0
    ELSE IF (s[i] \in cs) = dans THEN i
    ELSE Suivant(s, cs, dans, i + 1)

\* The last position from i on, going down, at which s holds a character
\* outside cs; 0 when none.
RECURSIVE Precedent(_, _, _)
Precedent(s, cs, i) ==
    IF i < 1 THEN 0
    ELSE IF s[i] \notin cs THEN i
    ELSE Precedent(s, cs, i - 1)

\* str.lower() on one character (the letters the inputs use).
MinusculeDe(c) ==
    CASE c = "A" -> "a" [] c = "B" -> "b" [] c = "C" -> "c"
      [] c = "O" -> "o" [] c = "S" -> "s" [] c = "Z" -> "z"
      [] OTHER -> c

\* str.lower()
Lower(s) == IF s = <<>> THEN <<>> ELSE [i \in 1..Len(s) |-> MinusculeDe(s[i])]

\* The characters str.isspace() and str.strip() treat as whitespace.
Espaces == {" ", "\t", "\n", "\r"}

EstEspace(c) == c \in Espaces

\* str.isspace(): at least one character and only whitespace.
IsSpace(s) == Len(s) > 0 /\ \A i \in 1..Len(s) : EstEspace(s[i])

\* str.strip(): drops the leading and the trailing whitespace.
Strip(s) ==
    LET debut == Suivant(s, Espaces, FALSE, 1)
    IN  IF debut = 0 THEN <<>> ELSE SubSeq(s, debut, Precedent(s, Espaces, Len(s)))

\* The positions of s that hold the character c.
Positions(s, c) == {i \in 1..Len(s) : s[i] = c}

\* The k-th smallest element of the set of numbers ps.
Rang(ps, k) == CHOOSE x \in ps : Cardinality({y \in ps : y < x}) = k - 1

\* str.split(sep) for a one-character separator: the texts between the
\* separators, one more than there are separators.  bs holds the positions
\* of the separators in increasing order, between 0 and Len(s) + 1.
Split(s, sep) ==
    LET ps == Positions(s, sep)
        n  == Cardinality(ps)
        bs == <<0>> \o [k \in 1..n |-> Rang(ps, k)] \o <<Len(s) + 1>>
    IN  <<>> \o [k \in 1..(n + 1) |-> SubSeq(s, bs[k] + 1, bs[k + 1] - 1)]

\* sep.join(parts)
RECURSIVE Join(_, _)
Join(parts, sep) ==
    IF parts = <<>> THEN <<>>
    ELSE IF Len(parts) = 1 THEN parts[1]
    ELSE parts[1] \o sep \o Join(Tail(parts), sep)

Chiffres == <<"0", "1", "2", "3", "4", "5", "6", "7", "8", "9">>

ChiffreVal(c) == (CHOOSE i \in 1..10 : Chiffres[i] = c) - 1

EstChiffre(c) == \E i \in 1..10 : Chiffres[i] = c

RECURSIVE ValeurDe(_)
ValeurDe(ds) == IF ds = <<>> THEN 0
                ELSE 10 * ValeurDe(SubSeq(ds, 1, Len(ds) - 1)) + ChiffreVal(ds[Len(ds)])

\* int(text): surrounding whitespace dropped, an optional sign, then digits
\* only; anything else is a ValueError (ok = FALSE).
IntDe(s) ==
    LET t     == Strip(s)
        signe == t # <<>> /\ t[1] \in {"+", "-"}
        corps == IF signe THEN Tail(t) ELSE t
        bon   == corps # <<>> /\ \A i \in 1..Len(corps) : EstChiffre(corps[i])
    IN  IF ~bon THEN [ok |-> FALSE, val |-> 0]
        ELSE [ok |-> TRUE,
              val |-> IF signe /\ t[1] = "-" THEN 0 - ValeurDe(corps) ELSE ValeurDe(corps)]

RECURSIVE StrNat(_)
StrNat(n) == IF n < 10 THEN <<Chiffres[n + 1]>>
             ELSE StrNat(n \div 10) \o <<Chiffres[(n % 10) + 1]>>

\* str(int): decimal text.
Str(n) == IF n < 0 THEN <<"-">> \o StrNat(0 - n) ELSE StrNat(n)

\* ------------------------------------------------- collaborators (utils)
\* est_une_adresse_email_valide: one "@", a non-empty local part, a domain
\* holding a "." that is neither its first nor its last character, and no
\* whitespace or comma.
EstUneAdresseEmailValide(s) ==
    LET ats == {i \in 1..Len(s) : s[i] = "@"}
    IN  /\ Cardinality(ats) = 1
        /\ \A i \in 1..Len(s) : ~EstEspace(s[i]) /\ s[i] # ","
        /\ LET a == Min(ats)
           IN  /\ a > 1
               /\ \E j \in (a + 2)..(Len(s) - 1) : s[j] = "."

\* One character of the digest of HacheurDeMotDePasse.hacher.
HashCar(c) ==
    CASE c = "s" -> "1" [] c = "S" -> "2" [] c = "e" -> "3" [] c = "c" -> "4"
      [] c = "r" -> "5" [] c = "t" -> "6" [] c = "o" -> "7" [] c = "u" -> "8"
      [] c = " " -> "9" [] OTHER -> "0"

\* HacheurDeMotDePasse.hacher: an opaque text, different for different
\* passwords of the inputs, written in characters no input uses.
Hacher(clair) == <<"h">> \o [i \in 1..Len(clair) |-> HashCar(clair[i])]

\* HacheurDeMotDePasse.verifier(hache, clair)
Verifier(hache, clair) == hache = Hacher(clair)

\* ------------------------------------------------------------ Utilisateur
\* Utilisateur.__init__ called with an integer age and abonnement.
Utilisateur(n, e, a, p, ab, m) ==
    [nom |-> n, email |-> e, age |-> a, pays |-> p, abonnement |-> ab, mot_de_passe |-> m]

\* Utilisateur(*champs) on the text fields of one line: six arguments are
\* required, and int(age), int(abonnement) must parse.
UtilisateurDeChamps(champs) ==
    IF Len(champs) # 6 THEN [ok |-> FALSE, u |-> <<>>]
    ELSE LET a  == IntDe(champs[3])
             ab == IntDe(champs[5])
         IN  IF ~a.ok \/ ~ab.ok THEN [ok |-> FALSE, u |-> <<>>]
             ELSE [ok |-> TRUE,
                   u  |-> <<Utilisateur(champs[1], champs[2], a.val, champs[4], ab.val, champs[6])>>]

\* Iterating over the open text file: the lines, each with its terminator,
\* the last one without when the file does not end with one.
LireLignes(f) ==
    LET ps       == Positions(f, "\n")
        n        == Cardinality(ps)
        fin(k)   == IF k = 0 THEN 0 ELSE Rang(ps, k)
        entieres == [k \in 1..n |-> SubSeq(f, fin(k - 1) + 1, fin(k))]
    IN  IF f = <<>> THEN <<>>
        ELSE IF n = 0 THEN <<f>>
        ELSE IF fin(n) < Len(f) THEN entieres \o <<SubSeq(f, fin(n) + 1, Len(f))>>
        ELSE entieres

\* lignes = [ligne.strip() for ligne in fichier], [] when the file is absent.
LignesDe(ex, f) ==
    IF ex /\ f # <<>> THEN LET ls == LireLignes(f) IN [i \in 1..Len(ls) |-> Strip(ls[i])]
    ELSE <<>>

\* [Utilisateur(*ligne.split(",")) for ligne in lignes]; ok = FALSE when a
\* line raises.  rs holds the result of each line.
Charger(ex, f) ==
    LET ls == LignesDe(ex, f)
        rs == <<>> \o [i \in 1..Len(ls) |-> UtilisateurDeChamps(Split(ls[i], ","))]
    IN  IF \E i \in 1..Len(rs) : ~rs[i].ok THEN [ok |-> FALSE, us |-> <<>>]
        ELSE IF ls = <<>> THEN [ok |-> TRUE, us |-> <<>>]
        ELSE [ok |-> TRUE, us |-> [i \in 1..Len(rs) |-> rs[i].u[1]]]

\* set([u.email for u in self.utilisateurs])
EmailsDe(us) == {us[i].email : i \in 1..Len(us)}

\* ------------------------------------------------------- the typed lines
\* What the user may type at each prompt (the results of input()).
NomsSaisis == { <<>>, <<" ">>, <<"B", "o", "b">>, <<" ", "b", "o", "b">> }

EmailsSaisis == { <<"a", "@", "b", ".", "c">>, <<"A", "@", "b", ".", "c">>,
                  <<"z", "@", "b", ".", "c">>, <<"a", "b", ".", "c">> }

AgesSaisis == { <<"3", "0">>, <<"-", "1">>, <<"a", "b", "c">>, <<"3", ".", "5">> }

PaysSaisis == { <<"C", "A">>, <<" ">> }

AbonnementsSaisis == { <<"1">>, <<"2">>, <<"3">>, <<"x">> }

MotsDePasseSaisis == { <<"s", "e", "c", "r", "e", "t">>, <<"S", "e", "c", "r", "e", "t">>,
                       <<"c", "o", "u", "r", "t">>, <<" ", " ", " ", " ", " ", " ">> }

\* ------------------------------------------------------------------ state
VARIABLES
    existe,        \* os.path.exists(chemin_base_de_donnees)
    fichier,       \* the characters of the file at chemin_base_de_donnees
    utilisateurs,  \* self.utilisateurs of the directory instance
    pc,            \* the prompt the running call waits at, "repos" between calls
    nom, email, age, pays, abonnement,   \* the locals of the running call
    adresses_emails_existantes,          \* the local set of inscrire
    saisie,        \* the line the last input() returned
    affiche,       \* the messages the last step printed
    retour,        \* the call that returned last and what it returned
    inscrits       \* history: what inscrire returned on this instance, with the password typed

vars == <<existe, fichier, utilisateurs, pc, nom, email, age, pays, abonnement,
          adresses_emails_existantes, saisie, affiche, retour, inscrits>>

locaux == <<nom, email, age, pays, abonnement, adresses_emails_existantes>>

NbLignes(f) == Cardinality(Positions(f, "\n"))

Init ==
    /\ existe = FALSE
    /\ fichier = <<>>
    /\ utilisateurs = <<>>
    /\ pc = "repos"
    /\ nom = None /\ email = None /\ age = NoneInt /\ pays = None /\ abonnement = NoneInt
    /\ adresses_emails_existantes = {}
    /\ saisie = None
    /\ affiche = <<>>
    /\ retour = [op |-> "aucun", val |-> <<>>]
    /\ inscrits = <<>>

\* Variant of Construire: the loaded accounts are added to a list the
\* instances share, instead of filling a list of the new instance.
Construire_Cumule ==
    /\ pc = "repos"
    /\ Charger(existe, fichier).ok
    /\ utilisateurs' = utilisateurs \o Charger(existe, fichier).us
    /\ inscrits' = <<>>
    /\ retour' = [op |-> "construire", val |-> <<>>]
    /\ saisie' = None
    /\ affiche' = <<>>
    /\ nom' = None /\ email' = None /\ age' = NoneInt /\ pays' = None /\ abonnement' = NoneInt
    /\ adresses_emails_existantes' = {}
    /\ UNCHANGED <<existe, fichier, pc>>

\* AnnuaireUtilisateur(chemin): a new instance takes the place of the
\* current one; a line that raises leaves no instance.
Construire ==
    /\ pc = "repos"
    /\ Charger(existe, fichier).ok
    /\ utilisateurs' = Charger(existe, fichier).us
    /\ inscrits' = <<>>
    /\ retour' = [op |-> "construire", val |-> <<>>]
    /\ saisie' = None
    /\ affiche' = <<>>
    /\ nom' = None /\ email' = None /\ age' = NoneInt /\ pays' = None /\ abonnement' = NoneInt
    /\ adresses_emails_existantes' = {}
    /\ UNCHANGED <<existe, fichier, pc>>

\* The caller calls inscrire(): the locals are fresh and the name is asked.
AppelerInscrire ==
    /\ pc = "repos"
    /\ NbLignes(fichier) < MaxLignes
    /\ pc' = "ins_nom"
    /\ nom' = None /\ email' = None /\ age' = NoneInt /\ pays' = None /\ abonnement' = NoneInt
    /\ adresses_emails_existantes' = {}
    /\ saisie' = None
    /\ affiche' = <<>>
    /\ retour' = [op |-> "aucun", val |-> <<>>]
    /\ UNCHANGED <<existe, fichier, utilisateurs, inscrits>>

\* One turn of the name loop; once the name is accepted the set of the
\* existing emails is taken from self.utilisateurs.
InscrireNom ==
    /\ pc = "ins_nom"
    /\ \E s \in NomsSaisis :
        LET n == Lower(s) IN
        /\ saisie' = s
        /\ IF Len(n) = 0 \/ IsSpace(n)
           THEN /\ affiche' = <<"Le nom ne peut pas etre vide.">>
                /\ nom' = None
                /\ pc' = "ins_nom"
                /\ UNCHANGED adresses_emails_existantes
           ELSE /\ affiche' = <<>>
                /\ nom' = n
                /\ pc' = "ins_email"
                /\ adresses_emails_existantes' = EmailsDe(utilisateurs)
    /\ UNCHANGED <<existe, fichier, utilisateurs, email, age, pays, abonnement, retour, inscrits>>

\* The email a turn of the email loop of inscrire leaves: None when the
\* validator refuses it, None when it is among the existing emails.
EmailInscriptionApres(e, existantes) ==
    LET e1 == IF ~EstUneAdresseEmailValide(e) THEN None ELSE e
    IN  IF e1 \in existantes THEN None ELSE e1

\* The messages of that turn.
MessagesEmailInscription(e, existantes) ==
    LET e1 == IF ~EstUneAdresseEmailValide(e) THEN None ELSE e
    IN  (IF ~EstUneAdresseEmailValide(e) THEN <<"L'adresse email entree est invalide.">> ELSE <<>>)
        \o (IF e1 \in existantes THEN <<"Un utilisateur est deja inscrit avec cette adresse email.">> ELSE <<>>)

InscrireEmail ==
    /\ pc = "ins_email"
    /\ \E s \in EmailsSaisis :
        /\ saisie' = s
        /\ email' = EmailInscriptionApres(Lower(s), adresses_emails_existantes)
        /\ affiche' = MessagesEmailInscription(Lower(s), adresses_emails_existantes)
    /\ pc' = IF email' = None THEN "ins_email" ELSE "ins_age"
    /\ UNCHANGED <<existe, fichier, utilisateurs, nom, age, pays, abonnement,
                   adresses_emails_existantes, retour, inscrits>>

\* Variant of AgeAccepte: the assert is missing.
AgeAccepte_SansAssert(s) == IntDe(s).ok

\* age = int(input()); assert age >= 0
AgeAccepte(s) == IntDe(s).ok /\ IntDe(s).val >= 0

\* Variant of InscrireAge: the country loop is placed after the tier loop,
\* so an accepted age is followed by the tier prompt.
InscrireAge_SautePays ==
    /\ pc = "ins_age"
    /\ \E s \in AgesSaisis :
        /\ saisie' = s
        /\ IF AgeAccepte(s)
           THEN /\ age' = IntDe(s).val /\ affiche' = <<>> /\ pc' = "ins_abonnement"
           ELSE /\ age' = NoneInt
                /\ affiche' = <<"L'age doit etre un entier positif.">>
                /\ pc' = "ins_age"
    /\ UNCHANGED <<existe, fichier, utilisateurs, nom, email, pays, abonnement,
                   adresses_emails_existantes, retour, inscrits>>

\* One turn of the age loop.
InscrireAge ==
    /\ pc = "ins_age"
    /\ \E s \in AgesSaisis :
        /\ saisie' = s
        /\ IF AgeAccepte(s)
           THEN /\ age' = IntDe(s).val /\ affiche' = <<>> /\ pc' = "ins_pays"
           ELSE /\ age' = NoneInt
                /\ affiche' = <<"L'age doit etre un entier positif.">>
                /\ pc' = "ins_age"
    /\ UNCHANGED <<existe, fichier, utilisateurs, nom, email, pays, abonnement,
                   adresses_emails_existantes, retour, inscrits>>

InscrirePays ==
    /\ pc = "ins_pays"
    /\ \E s \in PaysSaisis :
        LET p == Lower(s) IN
        /\ saisie' = s
        /\ IF Len(p) = 0 \/ IsSpace(p)
           THEN /\ pays' = None
                /\ affiche' = <<"Vous devez entrer un pays valide.">>
                /\ pc' = "ins_pays"
           ELSE /\ pays' = p /\ affiche' = <<>> /\ pc' = "ins_abonnement"
    /\ UNCHANGED <<existe, fichier, utilisateurs, nom, email, age, abonnement,
                   adresses_emails_existantes, retour, inscrits>>

\* abonnement = int(input()); assert abonnement in [1, 2]
AbonnementAccepte(s) == IntDe(s).ok /\ IntDe(s).val \in {1, 2}

InscrireAbonnement ==
    /\ pc = "ins_abonnement"
    /\ \E s \in AbonnementsSaisis :
        /\ saisie' = s
        /\ IF AbonnementAccepte(s)
           THEN /\ abonnement' = IntDe(s).val /\ affiche' = <<>> /\ pc' = "ins_mdp"
           ELSE /\ abonnement' = NoneInt
                /\ affiche' = <<"Le type d'abonement doit etre 1 pour regional ou 2 pour international.">>
                /\ pc' = "ins_abonnement"
    /\ UNCHANGED <<existe, fichier, utilisateurs, nom, email, age, pays,
                   adresses_emails_existantes, retour, inscrits>>

\* Variant of MotDePasseRefuse: a password of 6 characters is refused too.
MotDePasseRefuse_SixRefuse(m) == Len(m) <= 6 \/ IsSpace(m)

\* The test of the password loops of inscrire and authentifier.
MotDePasseRefuse(m) == Len(m) < 6 \/ IsSpace(m)

\* Variant of NouvelUtilisateur: the typed password is put in the account.
NouvelUtilisateur_EnClair(n, e, a, p, ab, clair) == Utilisateur(n, e, a, p, ab, clair)

\* The account inscrire builds: the digest stands in the password field.
NouvelUtilisateur(n, e, a, p, ab, clair) == Utilisateur(n, e, a, p, ab, Hacher(clair))

\* Variant of LigneDe: pays and age change places.
LigneDe_PaysAvantAge(u) ==
    Join(<<u.nom, u.email, u.pays, Str(u.age), Str(u.abonnement), u.mot_de_passe>>, <<",">>)

\* ",".join([nom, email, str(age), pays, str(abonnement), hash_mot_de_passe])
LigneDe(u) ==
    Join(<<u.nom, u.email, Str(u.age), u.pays, Str(u.abonnement), u.mot_de_passe>>, <<",">>)

\* Variant of Ecrire: the file is opened with mode="w" and loses its content.
Ecrire_Ecrase(f, ligne) == ligne \o <<"\n">>

\* open(chemin, mode="a") ... fichier.write(ligne + "\n")
Ecrire(f, ligne) == f \o ligne \o <<"\n">>

\* Variant of UtilisateursApresInscrire: the list is replaced by a list of
\* the new account alone.
UtilisateursApresInscrire_Remplace(us, u) == <<u>>

\* self.utilisateurs when inscrire returns u: the list is not touched.
UtilisateursApresInscrire(us, u) == us

\* One turn of the password loop; an accepted password ends the call: the
\* account is built, its line is appended to the file and it is returned.
InscrireMotDePasse ==
    /\ pc = "ins_mdp"
    /\ \E s \in MotsDePasseSaisis :
        /\ saisie' = s
        /\ IF MotDePasseRefuse(s)
           THEN /\ affiche' = <<"Le mot de passe doit faire au minimum 6 caracteres.">>
                /\ pc' = "ins_mdp"
                /\ UNCHANGED <<existe, fichier, utilisateurs, retour, inscrits>>
           ELSE LET u == NouvelUtilisateur(nom, email, age, pays, abonnement, s) IN
                /\ affiche' = <<>>
                /\ existe' = TRUE
                /\ fichier' = Ecrire(fichier, LigneDe(u))
                /\ utilisateurs' = UtilisateursApresInscrire(utilisateurs, u)
                /\ retour' = [op |-> "inscrire", val |-> <<u>>]
                /\ inscrits' = Append(inscrits, [u |-> u, clair |-> s])
                /\ pc' = "repos"
    /\ UNCHANGED locaux

\* Variant of InscrireEchecEcriture: the account is put in the list before
\* the file is opened, and stays there when the write raises.
InscrireEchecEcriture_MemoireAvant ==
    /\ pc = "ins_mdp"
    /\ \E s \in MotsDePasseSaisis :
        /\ ~MotDePasseRefuse(s)
        /\ saisie' = s
        /\ utilisateurs' = Append(utilisateurs,
                                  NouvelUtilisateur(nom, email, age, pays, abonnement, s))
    /\ \E cree \in BOOLEAN : existe' = (existe \/ cree)
    /\ affiche' = <<>>
    /\ retour' = [op |-> "erreur", val |-> <<>>]
    /\ pc' = "repos"
    /\ UNCHANGED <<fichier, inscrits>>
    /\ UNCHANGED locaux

\* The last turn of the password loop when the append raises (open() or
\* write() fails with an OSError): nothing is caught, so the error reaches
\* the caller and no account is returned.  open() may have created the
\* file before the failure; no character is written.
InscrireEchecEcriture ==
    /\ pc = "ins_mdp"
    /\ \E s \in MotsDePasseSaisis :
        /\ ~MotDePasseRefuse(s)
        /\ saisie' = s
    /\ \E cree \in BOOLEAN : existe' = (existe \/ cree)
    /\ affiche' = <<>>
    /\ retour' = [op |-> "erreur", val |-> <<>>]
    /\ pc' = "repos"
    /\ UNCHANGED <<fichier, utilisateurs, inscrits>>
    /\ UNCHANGED locaux

\* The caller calls authentifier(): email = None and the email is asked.
AppelerAuthentifier ==
    /\ pc = "repos"
    /\ pc' = "auth_email"
    /\ nom' = None /\ email' = None /\ age' = NoneInt /\ pays' = None /\ abonnement' = NoneInt
    /\ adresses_emails_existantes' = {}
    /\ saisie' = None
    /\ affiche' = <<>>
    /\ retour' = [op |-> "aucun", val |-> <<>>]
    /\ UNCHANGED <<existe, fichier, utilisateurs, inscrits>>

\* The email prompt of authentifier: a refused email leaves email = None,
\* and the password loop comes next in both cases.
AuthentifierEmail ==
    /\ pc = "auth_email"
    /\ \E s \in EmailsSaisis :
        /\ saisie' = s
        /\ IF ~EstUneAdresseEmailValide(Lower(s))
           THEN /\ affiche' = <<"L'adresse email entree est invalide.">>
                /\ email' = None
           ELSE /\ affiche' = <<>>
                /\ email' = Lower(s)
    /\ pc' = "auth_mdp"
    /\ UNCHANGED <<existe, fichier, utilisateurs, nom, age, pays, abonnement,
                   adresses_emails_existantes, retour, inscrits>>

\* Variant of PositionsVerifiees: the typed email is not looked up.
PositionsVerifiees_SansEmail(us, e, clair) ==
    {i \in 1..Len(us) : Verifier(us[i].mot_de_passe, clair)}

\* The for loop of authentifier: the positions at which it would return.
PositionsVerifiees(us, e, clair) ==
    {i \in 1..Len(us) : e \in EmailsDe(us) /\ Verifier(us[i].mot_de_passe, clair)}

\* What the for loop returns: the copy of the first such account, nothing
\* when it runs to its end.
Recherche(us, e, clair) ==
    LET ps == PositionsVerifiees(us, e, clair)
    IN  IF ps = {} THEN <<>>
        ELSE LET u == us[Min(ps)]
             IN  <<Utilisateur(u.nom, u.email, u.age, u.pays, u.abonnement, u.mot_de_passe)>>

\* One turn of the password loop of authentifier; an accepted password is
\* followed by the for loop.  When the loop returns nothing, the while
\* loop asks the email again if email is None, and otherwise ends: the
\* method returns None.
AuthentifierMotDePasse ==
    /\ pc = "auth_mdp"
    /\ \E s \in MotsDePasseSaisis :
        /\ saisie' = s
        /\ IF MotDePasseRefuse(s)
           THEN /\ affiche' = <<"Le mot de passe doit faire au minimum 6 caracteres.">>
                /\ pc' = "auth_mdp"
                /\ UNCHANGED <<retour, adresses_emails_existantes>>
           ELSE /\ affiche' = <<>>
                /\ adresses_emails_existantes' = EmailsDe(utilisateurs)
                /\ LET r == Recherche(utilisateurs, email, s) IN
                   IF r # <<>>
                   THEN pc' = "repos" /\ retour' = [op |-> "authentifier", val |-> r]
                   ELSE IF email = None
                   THEN pc' = "auth_email" /\ UNCHANGED retour
                   ELSE pc' = "repos" /\ retour' = [op |-> "authentifier", val |-> <<>>]
    /\ UNCHANGED <<existe, fichier, utilisateurs, nom, email, age, pays, abonnement, inscrits>>

Next ==
    \/ Construire
    \/ AppelerInscrire
    \/ InscrireNom
    \/ InscrireEmail
    \/ InscrireAge
    \/ InscrirePays
    \/ InscrireAbonnement
    \/ InscrireMotDePasse
    \/ InscrireEchecEcriture
    \/ AppelerAuthentifier
    \/ AuthentifierEmail
    \/ AuthentifierMotDePasse

Spec == Init /\ [][Next]_vars

\* ----------------------------------------------------------------- claims
\* The accounts a new instance would load from the file as it is now.
ComptesDuFichier == Charger(existe, fichier).us

\* inscrire has just returned (nothing was called since).
InscrireARetourne == pc = "repos" /\ retour.op = "inscrire"

\* authentifier has just returned (nothing was called since); email holds
\* the lowercased email and saisie the password of its last attempt.
AuthentifierARetourne == pc = "repos" /\ retour.op = "authentifier"

\* The emails of the accounts of us are pairwise different.
EmailsDistincts(us) == \A i, j \in 1..Len(us) : us[i].email = us[j].email => i = j

\* C1: once inscrire has returned an account with email e on this instance,
\* a later inscrire on it never accepts e, and no two accounts of the
\* persisted file carry the same email.
C1_EmailUnique ==
    /\ (pc \in {"ins_age", "ins_pays", "ins_abonnement", "ins_mdp"}
          => \A i \in 1..Len(inscrits) : inscrits[i].u.email # email)
    /\ EmailsDistincts(ComptesDuFichier)

\* C2: an account returned by authentifier carries the entered (lowercased)
\* email, and the entered password verifies against its stored digest.
C2_CompteDeLaCombinaison ==
    (AuthentifierARetourne /\ retour.val # <<>>)
        => /\ retour.val[1].email = email
           /\ Verifier(retour.val[1].mot_de_passe, saisie)

\* C3: authentifier never returns without an authenticated account.
C3_JamaisSansCompte ==
    AuthentifierARetourne => retour.val # <<>>

\* C4: when inscrire returns, the new account is in self.utilisateurs, which
\* equals the accounts of the persisted file; and authentifier, given the
\* email and the password of an account registered on this instance,
\* returns that account.
C4_MemoireEtendue ==
    /\ InscrireARetourne
          => /\ \E i \in 1..Len(utilisateurs) : utilisateurs[i] = retour.val[1]
             /\ utilisateurs = ComptesDuFichier
    /\ AuthentifierARetourne
          => \A i \in 1..Len(inscrits) :
                (inscrits[i].u.email = email /\ inscrits[i].clair = saisie)
                    => retour.val = <<inscrits[i].u>>

\* C5: after inscrire has returned, the last account a new instance loads
\* from the file has the six field values of the returned account.
C5_AllerRetour ==
    InscrireARetourne
        => /\ Charger(existe, fichier).ok
           /\ ComptesDuFichier # <<>>
           /\ LET cs == ComptesDuFichier IN cs[Len(cs)] = retour.val[1]

\* An attempt of authentifier has just ended, by a return or by asking the
\* email again; saisie is the password it entered.
TentativeFinie ==
    /\ saisie # None
    /\ \/ AuthentifierARetourne
       \/ pc = "auth_email" /\ retour.op = "aucun"

\* C6: in a directory whose stored emails are pairwise different, when the
\* attempt of authentifier entered the email of a stored account and a
\* password that verifies against that account's digest, the call has
\* returned on that attempt, with that account's six field values.
C6_BonCompteRetourne ==
    (TentativeFinie /\ EmailsDistincts(utilisateurs))
        => \A i \in 1..Len(utilisateurs) :
              (utilisateurs[i].email = email
                  /\ Verifier(utilisateurs[i].mot_de_passe, saisie))
                  => /\ AuthentifierARetourne
                     /\ retour.val = <<utilisateurs[i]>>

\* C7: the in-memory list is a prefix of the accounts obtained by parsing
\* the persisted file.
C7_MemoirePrefixeDuFichier ==
    LET r == Charger(existe, fichier) IN
    /\ r.ok
    /\ Len(utilisateurs) <= Len(r.us)
    /\ utilisateurs = SubSeq(r.us, 1, Len(utilisateurs))

\* C7 witness: a loaded directory on which inscrire has returned, so that
\* the file holds an account more than the memory.
C7_Temoin ==
    /\ InscrireARetourne
    /\ Len(utilisateurs) >= 1
    /\ Len(ComptesDuFichier) > Len(utilisateurs)

\* The accounts the file held before its last line was appended.
ComptesAvantDerniereLigne == SubSeq(ComptesDuFichier, 1, Len(ComptesDuFichier) - 1)

\* The field rules of an account, without the rule on existing emails.
ChampsValides(u) ==
    /\ u.nom = Lower(u.nom) /\ Len(u.nom) > 0 /\ ~IsSpace(u.nom)
    /\ u.pays = Lower(u.pays) /\ Len(u.pays) > 0 /\ ~IsSpace(u.pays)
    /\ u.email = Lower(u.email) /\ EstUneAdresseEmailValide(u.email)
    /\ u.age \in Int /\ u.age >= 0
    /\ u.abonnement \in {1, 2}

\* C8: inscrire returns and writes only an account whose fields satisfy the
\* field rules and whose email was not already in the directory.
C8_CompteValide ==
    InscrireARetourne
        => /\ ChampsValides(retour.val[1])
           /\ retour.val[1].email \notin EmailsDe(ComptesAvantDerniereLigne)

\* C9: the file changes only when inscrire returns; it then grows by exactly
\* one line, the six fields of the returned account joined by commas in the
\* order nom, email, age, pays, abonnement, mot_de_passe, then "\n".
C9_UneLigneParInscription ==
    [][ /\ fichier' # fichier => (pc = "ins_mdp" /\ pc' = "repos" /\ retour'.op = "inscrire")
        /\ (pc = "ins_mdp" /\ pc' = "repos" /\ retour'.op = "inscrire")
              => /\ retour'.val # <<>>
                 /\ LET u == retour'.val[1] IN
                    fichier' = fichier \o u.nom \o <<",">> \o u.email \o <<",">>
                                       \o Str(u.age) \o <<",">> \o u.pays \o <<",">>
                                       \o Str(u.abonnement) \o <<",">> \o u.mot_de_passe
                                       \o <<"\n">>
                 /\ NbLignes(fichier') = NbLignes(fichier) + 1 ]_vars

\* C9 witness: inscrire has returned for the second time; the file holds
\* two lines.
C9_Temoin == InscrireARetourne /\ NbLignes(fichier) = 2

\* The digests of the passwords the user may type.
Condenses == {Hacher(clair) : clair \in MotsDePasseSaisis}

\* The password fields of every account of the file, of the memory and of
\* the last return, one after the other.
ChampsMotDePasse ==
    LET us == ComptesDuFichier \o utilisateurs \o retour.val
    IN  [i \in 1..Len(us) |-> us[i].mot_de_passe]

\* C10: no password field of the file, of the memory or of a returned
\* account is a typed password; each is an output of the hasher, and the
\* field of an account inscrire returned is the digest of the password
\* typed for it, which differs from that password.
C10_JamaisEnClair ==
    /\ LET ms == ChampsMotDePasse IN
       \A i \in 1..Len(ms) :
          /\ ms[i] \notin MotsDePasseSaisis
          /\ ms[i] \in Condenses
    /\ \A i \in 1..Len(inscrits) :
          /\ inscrits[i].u.mot_de_passe = Hacher(inscrits[i].clair)
          /\ inscrits[i].u.mot_de_passe # inscrits[i].clair

\* C10 witness: authentifier has returned an account loaded from the file.
C10_Temoin ==
    /\ AuthentifierARetourne
    /\ retour.val # <<>>
    /\ ComptesDuFichier # <<>>

\* An attempt of authentifier has just ended without an account: the call
\* returned None or asks the email again.
TentativeEchouee == TentativeFinie /\ retour.val = <<>>

\* C11: every failed attempt of authentifier prints the message of the rule
\* it broke: a refused email prints the invalid-email message, a valid email
\* of no account prints the no-account message, and a registered email with
\* a password that verifies against no digest of that email prints the
\* wrong-password message.
C11_MessageParEchec ==
    /\ (pc = "auth_mdp" /\ saisie \in EmailsSaisis /\ email = None)
          => affiche = <<"L'adresse email entree est invalide.">>
    /\ (TentativeEchouee /\ email # None /\ email \notin EmailsDe(utilisateurs))
          => affiche = <<"Nous n'avons trouve aucun utilisateur avec cette adresse email au niveau de notre systeme.">>
    /\ (TentativeEchouee /\ email \in EmailsDe(utilisateurs))
          => affiche = <<"Mot de passe incorrect.">>

\* C12: when the append to the file fails during inscrire, the error
\* reaches the caller, no account is returned, the file holds what it held
\* and self.utilisateurs is what it was before the call.
C12_EchecEcritureSansEffet ==
    [][ (pc = "ins_mdp" /\ pc' = "repos" /\ retour'.op # "inscrire")
            => /\ retour' = [op |-> "erreur", val |-> <<>>]
               /\ utilisateurs' = utilisateurs
               /\ fichier' = fichier ]_vars

\* C12 witness: the append has failed on a directory that holds an account.
C12_Temoin == pc = "repos" /\ retour.op = "erreur" /\ Len(utilisateurs) >= 1

\* C13: a construction leaves the file as it is and yields one account per
\* line, in the order of the lines, each with the field values of its line;
\* a second construction with no call in between yields the same list.
C13_ChargementIdempotent ==
    [][ retour'.op = "construire"
            => /\ fichier' = fichier
               /\ existe' = existe
               /\ Len(utilisateurs') = NbLignes(fichier)
               /\ \A i \in 1..Len(utilisateurs') :
                     LigneDe(utilisateurs'[i]) = LignesDe(existe, fichier)[i]
               /\ retour.op = "construire" => utilisateurs' = utilisateurs ]_vars

\* C13 witness: a directory constructed from a file of two lines, on which
\* nothing was called since.
C13_Temoin == pc = "repos" /\ retour.op = "construire" /\ Len(utilisateurs) = 2

\* C14: at the password prompt of inscrire and of authentifier alike, the
\* typed password is refused exactly when it has fewer than 6 characters or
\* only whitespace; a refused password prints the length message and the
\* password is asked again, an accepted one leaves the password prompt.
C14_RegleMotDePasse ==
    [][ (pc = "ins_mdp" \/ pc = "auth_mdp")
            => LET m      == saisie'
                   refuse == \/ Len(m) < 6
                             \/ \A i \in 1..Len(m) : m[i] \in {" ", "\t", "\n", "\r"}
               IN  /\ (refuse <=> (pc' = pc))
                   /\ (refuse => affiche' = <<"Le mot de passe doit faire au minimum 6 caracteres.">>)
                   /\ (Len(m) = 5 => pc' = pc) ]_vars

\* C14 witness: authentifier has refused a password of 6 whitespace
\* characters and asks the password again.
C14_Temoin == pc = "auth_mdp" /\ saisie = <<" ", " ", " ", " ", " ", " ">>

\* C15: at the age prompt the typed text is accepted exactly when it parses
\* as an integer that is >= 0 ("-1", "abc" and "3.5" are refused), at the
\* tier prompt exactly when it parses as the integer 1 or 2; an accepted
\* value becomes the field, a refused one asks the same field again.
C15_AgeEtAbonnement ==
    [][ /\ (pc = "ins_age")
              => LET r == IntDe(saisie') IN
                 /\ ((r.ok /\ r.val >= 0) <=> (pc' = "ins_pays"))
                 /\ (pc' = "ins_pays" => age' = r.val)
                 /\ (pc' # "ins_pays" => pc' = "ins_age")
                 /\ (saisie' \in {<<"-", "1">>, <<"a", "b", "c">>, <<"3", ".", "5">>}
                        => pc' = "ins_age")
        /\ (pc = "ins_abonnement")
              => LET r == IntDe(saisie') IN
                 /\ ((r.ok /\ (r.val = 1 \/ r.val = 2)) <=> (pc' = "ins_mdp"))
                 /\ (pc' = "ins_mdp" => abonnement' = r.val)
                 /\ (pc' # "ins_mdp" => pc' = "ins_abonnement")
                 /\ (saisie' \in {<<"1">>, <<"2">>} => pc' = "ins_mdp")
                 /\ (saisie' = <<"3">> => pc' = "ins_abonnement") ]_vars

\* C15 witness: inscrire has refused the age "-1" and asks the age again.
C15_Temoin == pc = "ins_age" /\ saisie = <<"-", "1">> /\ age = NoneInt

\* C16: authentifier asks the password only once a syntactically valid
\* email has been entered: at the password prompt the local email holds the
\* accepted email.
C16_MotDePasseApresEmailValide ==
    pc = "auth_mdp" => (email # None /\ EstUneAdresseEmailValide(email))

\* The place of a prompt of inscrire in the order nom, email, age, pays,
\* abonnement, mot de passe; 0 outside inscrire.
RangInscrire(p) ==
    CASE p = "ins_nom" -> 1 [] p = "ins_email" -> 2 [] p = "ins_age" -> 3
      [] p = "ins_pays" -> 4 [] p = "ins_abonnement" -> 5 [] p = "ins_mdp" -> 6
      [] OTHER -> 0

\* C17: inscrire asks nom, email, age, pays, abonnement, mot de passe in
\* this order: a step at a prompt stays at it (the input was refused) or
\* moves to the next one (after the password: ends the call); the fields
\* before the prompt are accepted and keep their values, the field of the
\* prompt and the later ones are not accepted yet.
C17_OrdreDesChamps ==
    [][ /\ RangInscrire(pc) >= 1
              => /\ \/ pc' = pc
                    \/ RangInscrire(pc') = RangInscrire(pc) + 1
                    \/ (pc = "ins_mdp" /\ pc' = "repos")
                 /\ RangInscrire(pc) > 1 => (nom' = nom /\ nom # None)
                 /\ RangInscrire(pc) > 2 => (email' = email /\ email # None)
                 /\ RangInscrire(pc) > 3 => (age' = age /\ age # NoneInt)
                 /\ RangInscrire(pc) > 4 => (pays' = pays /\ pays # None)
                 /\ RangInscrire(pc) > 5 => (abonnement' = abonnement /\ abonnement # NoneInt)
        /\ RangInscrire(pc') >= 1
              => /\ RangInscrire(pc') <= 1 => nom' = None
                 /\ RangInscrire(pc') <= 2 => email' = None
                 /\ RangInscrire(pc') <= 3 => age' = NoneInt
                 /\ RangInscrire(pc') <= 4 => pays' = None
                 /\ RangInscrire(pc') <= 5 => abonnement' = NoneInt ]_vars

\* C17 witness: the country was refused and is asked again, name, email and
\* age being accepted.
C17_Temoin ==
    /\ pc = "ins_pays" /\ saisie = <<" ">>
    /\ nom # None /\ email # None /\ age # NoneInt /\ pays = None

EstPrefixe(s, t) == Len(s) <= Len(t) /\ s = SubSeq(t, 1, Len(s))

\* C19: no step changes or removes an account: the file before the step is
\* a prefix of the file after it, the accounts of self.utilisateurs keep
\* their values and positions, and a step of authentifier leaves the file
\* and self.utilisateurs as they are.
C19_AjoutSeulement ==
    [][ /\ EstPrefixe(fichier, fichier')
        /\ EstPrefixe(utilisateurs, utilisateurs')
        /\ (pc = "auth_email" \/ pc = "auth_mdp")
              => (fichier' = fichier /\ existe' = existe /\ utilisateurs' = utilisateurs) ]_vars

\* C19 witness: inscrire has returned on a directory loaded with one
\* account; the file holds a second line.
C19_Temoin ==
    /\ pc = "repos" /\ retour.op = "inscrire"
    /\ Len(utilisateurs) = 1
    /\ NbLignes(fichier) = 2

====
